---- MODULE Spec2Model ----
(***************************************************************************)
(* EnergyZero Better Gas Prices: the coordinator's refresh                 *)
(* (_async_update_data), its per-period extraction (_process_price_data)   *)
(* and the rounding helper (round_monetary_value).                         *)
(*                                                                         *)
(* Numbers.  A JSON number literal is written n and stands for n/1000      *)
(* (Scale).  response.json() turns it into a Python float, the binary64    *)
(* value nearest to n/1000; the running totals are binary64 sums.  A       *)
(* float is modelled exactly, as sign and magnitude, the magnitude being   *)
(* the fixed-point number x * 2^75 held in six 15-bit limbs (most          *)
(* significant first; limb 1 is the integer part of x).  Every float of    *)
(* the model is 0 or lies in [2^-10, 2^15), so its 53 significant bits fit *)
(* in the 75 fraction bits.  A value stored in the returned record is a    *)
(* float with at most two decimals; it is written as its repr, again in    *)
(* thousandths (0.13 is 130).                                              *)
(***************************************************************************)
EXTENDS Integers, Sequences, FiniteSets, TLC

VARIABLES
    pc,         \* position of _async_update_data: "idle" | "awaiting"
    now,        \* the clock reading taken by dt_util.now()
    variables,  \* the GraphQL variables of the request in flight
    response,   \* the HTTP response last handed to the refresh
    outcome,    \* "none" | "returned" | "raised"
    data,       \* the GasPriceData returned by the last refresh
    error,      \* the exception raised by the last refresh
    log,        \* _LOGGER.error calls of the last refresh, in order
    session,    \* self._session: "open" | "closed"
    held,       \* coordinator.data: the record the host holds, and the
                \* response it was made from
    shutdowns,  \* calls of async_shutdown completed so far
    failed,     \* TRUE when a call of async_shutdown raised
    value,      \* argument of round_monetary_value
    rounded     \* result of round_monetary_value

vars == <<pc, now, variables, response, outcome, data, error, log, session, held,
          shutdowns, failed, value, rounded>>

---------------------------------------------------------------------------
(* JSON values as they arrive in the response: a number, null, or a key    *)
(* that is not there.                                                      *)

NULL == [t |-> "null", v |-> 0]
ABSENT == [t |-> "absent", v |-> 0]
Num(n) == [t |-> "num", v |-> n]

Scale == 1000

Abs(n) == IF n < 0 THEN -n ELSE n

---------------------------------------------------------------------------
(* Python floats (IEEE-754 binary64, round-to-nearest-even).               *)

LimbBits == 15
NLimbs == 6
MantissaBits == 53
Base == 2^LimbBits

ZeroMag == [i \in 1..NLimbs |-> 0]

IsZero(m) == \A i \in 1..NLimbs : m[i] = 0

\* Carry out of limb i into limb i-1 when x and y are added.
RECURSIVE Carry(_, _, _)
Carry(x, y, i) ==
    IF i > NLimbs THEN 0 ELSE (x[i] + y[i] + Carry(x, y, i + 1)) \div Base

AddMag(x, y) == [i \in 1..NLimbs |-> (x[i] + y[i] + Carry(x, y, i + 1)) % Base]

\* Borrow out of limb i when y is subtracted from x (x >= y).
RECURSIVE Borrow(_, _, _)
Borrow(x, y, i) ==
    IF i > NLimbs THEN 0
    ELSE IF x[i] - y[i] - Borrow(x, y, i + 1) < 0 THEN 1 ELSE 0

SubMag(x, y) ==
    [i \in 1..NLimbs |-> (x[i] - y[i] - Borrow(x, y, i + 1) + Base) % Base]

CmpMag(x, y) ==
    LET d == {i \in 1..NLimbs : x[i] # y[i]}
    IN  IF d = {} THEN 0
        ELSE LET i == CHOOSE j \in d : \A k \in d : j <= k
             IN  IF x[i] > y[i] THEN 1 ELSE -1

BitLen(l) == CHOOSE k \in 0..LimbBits : (l = 0 /\ k = 0) \/ (k > 0 /\ 2^(k-1) <= l /\ l < 2^k)

TopLimb(m) == CHOOSE i \in 1..NLimbs : m[i] # 0 /\ \A j \in 1..(i-1) : m[j] = 0

\* Index of the most significant set bit; bit 0 is the last bit of limb NLimbs.
MsbIndex(m) == (NLimbs - TopLimb(m)) * LimbBits + BitLen(m[TopLimb(m)]) - 1

LimbOf(k) == NLimbs - (k \div LimbBits)

Bit(m, k) == (m[LimbOf(k)] \div 2^(k % LimbBits)) % 2

LowNonzero(m, k) ==
    \/ m[LimbOf(k)] % 2^(k % LimbBits) # 0
    \/ \E i \in (LimbOf(k) + 1)..NLimbs : m[i] # 0

Truncate(m, k) ==
    [i \in 1..NLimbs |->
        IF i < LimbOf(k) THEN m[i]
        ELSE IF i = LimbOf(k) THEN m[i] - (m[i] % 2^(k % LimbBits))
        ELSE 0]

PowerOfTwo(k) == [i \in 1..NLimbs |-> IF i = LimbOf(k) THEN 2^(k % LimbBits) ELSE 0]

\* Round an exact magnitude (sticky: nonzero bits beyond the last limb) to
\* MantissaBits significant bits, ties to even.
\* g is the index of the first bit that is dropped.
RoundAt(m, sticky, g) ==
    IF g < 0 THEN m
    ELSE IF /\ Bit(m, g) = 1
            /\ (LowNonzero(m, g) \/ sticky \/ Bit(m, g + 1) = 1)
         THEN AddMag(Truncate(m, g + 1), PowerOfTwo(g + 1))
         ELSE Truncate(m, g + 1)

RoundToDouble(m, sticky) ==
    IF IsZero(m) THEN m ELSE RoundAt(m, sticky, MsbIndex(m) - MantissaBits)

\* Long division of r/Scale into k further limbs; the last element is the
\* remainder.
RECURSIVE DivLimbs(_, _)
DivLimbs(r, k) ==
    IF k = 0 THEN <<r>>
    ELSE <<(r * Base) \div Scale>> \o DivLimbs((r * Base) % Scale, k - 1)

\* The float nearest to the decimal n/Scale, n >= 0.
RoundQuotient(s) == RoundToDouble([i \in 1..NLimbs |-> s[i]], s[NLimbs + 1] # 0)

NearestDouble(n) == RoundQuotient(<<n \div Scale>> \o DivLimbs(n % Scale, NLimbs - 1))

\* Python values: None, or a float (the int 0 of the defaults behaves as 0.0).
PyNone == [none |-> TRUE, neg |-> FALSE, mag |-> ZeroMag]
PyFloat(neg, m) == [none |-> FALSE, neg |-> neg /\ ~IsZero(m), mag |-> m]
PyZero == PyFloat(FALSE, ZeroMag)

\* response.json(): a JSON number becomes a float, null becomes None.
json_value(j) ==
    IF j.t = "num" THEN PyFloat(j.v < 0, NearestDouble(Abs(j.v))) ELSE PyNone

\* a + b on floats.
ExactSum(a, b) ==
    IF a.neg = b.neg THEN [neg |-> a.neg, mag |-> AddMag(a.mag, b.mag)]
    ELSE IF CmpMag(a.mag, b.mag) >= 0
         THEN [neg |-> a.neg, mag |-> SubMag(a.mag, b.mag)]
         ELSE [neg |-> b.neg, mag |-> SubMag(b.mag, a.mag)]

Rounded(x) == PyFloat(x.neg, RoundToDouble(x.mag, FALSE))

float_add(a, b) == Rounded(ExactSum(a, b))

---------------------------------------------------------------------------
(* utils.py                                                                *)

\* The multiple of 1/Scale nearest to the float, from its integer part and
\* its leading LimbBits fraction bits.
NearestUnits(m) == m[1] * Scale + (m[2] * Scale + Base \div 2) \div Base

\* Decimal(str(value)): str gives the shortest decimal that reads back as
\* the same float.  That is units/Scale when units/Scale reads back as the
\* float (eps = 0); otherwise it is a 16 or 17 digit decimal just above
\* (eps = 1) or just below (eps = -1) units/Scale.
DecimalNear(f, n) ==
    [neg |-> f.neg, units |-> n, eps |-> CmpMag(f.mag, NearestDouble(n))]

decimal_of_str(f) == DecimalNear(f, NearestUnits(f.mag))

\* .quantize(Decimal("0.01"), rounding=ROUND_HALF_UP), then float(): the
\* magnitude goes to the nearest hundredth, a half away from zero.
quantize_half_even(d) ==
    LET q == d.units \div 10
        r == d.units % 10
        up == r > 5 \/ (r = 5 /\ d.eps > 0) \/ (r = 5 /\ d.eps = 0 /\ q % 2 = 1)
        c == IF up THEN q + 1 ELSE q
    IN  IF d.neg THEN -(c * 10) ELSE c * 10

quantize_half_up(d) ==
    LET q == d.units \div 10
        r == d.units % 10
        up == r > 5 \/ (r = 5 /\ d.eps >= 0)
        c == IF up THEN q + 1 ELSE q
    IN  IF d.neg THEN -(c * 10) ELSE c * 10

round_monetary_value(v) ==
    IF v.none THEN NULL ELSE Num(quantize_half_up(decimal_of_str(v)))

---------------------------------------------------------------------------
(* The clock.  dt_util.now() is an aware datetime in the host's time zone: *)
(* a wall-clock reading (day, hour, minute) and the zone.  Days are        *)
(* numbered; in Europe/Amsterdam summer time begins on SpringDay (02:00    *)
(* becomes 03:00) and ends on FallDay (03:00 becomes 02:00).               *)

Zones == {"UTC", "Europe/Amsterdam"}

SpringDay == 1
FallDay == 3
MaxDay == 4

DateTime(tz, d, h, m) == [tz |-> tz, day |-> d, hour |-> h, minute |-> m]

\* tzinfo.utcoffset(dt), in hours, of a wall-clock reading (fold = 0).
utcoffset(dt) ==
    IF dt.tz = "UTC" THEN 0
    ELSE IF /\ (dt.day > SpringDay \/ (dt.day = SpringDay /\ dt.hour >= 3))
            /\ (dt.day < FallDay \/ (dt.day = FallDay /\ dt.hour < 3))
         THEN 2
         ELSE 1

\* Wall-clock readings that exist (02:00-03:00 is skipped on SpringDay).
Exists(dt) == ~(dt.tz = "Europe/Amsterdam" /\ dt.day = SpringDay /\ dt.hour = 2)

\* now.replace(hour=0, minute=0, second=0, microsecond=0)
replace_midnight(dt) == [dt EXCEPT !.hour = 0, !.minute = 0]

\* dt + timedelta(days=n): arithmetic on the wall clock, same tzinfo.
plus_days(dt, n) == [dt EXCEPT !.day = @ + n]

\* dt.isoformat(): date, time and the UTC offset in force at that reading,
\* e.g. "2024-03-31T00:00:00+01:00".
isoformat(dt) ==
    [date |-> dt.day, hour |-> dt.hour, minute |-> dt.minute, offset |-> utcoffset(dt)]

\* The point in time an ISO timestamp denotes, in minutes UTC.
Instant(iso) == ((iso.date * 24 + iso.hour) - iso.offset) * 60 + iso.minute

current_day_start(t) == replace_midnight(t)

next_day_start_from_now(t) == plus_days(t, 1)

next_day_start(t) == plus_days(current_day_start(t), 1)
day_after_next_start(t) == plus_days(current_day_start(t), 2)

\* The variables of the GraphQL request built at clock reading t.
request_variables(t) ==
    [gasCurrentFrom |-> isoformat(current_day_start(t)),
     gasCurrentTill |-> isoformat(next_day_start(t)),
     gasNextFrom    |-> isoformat(next_day_start(t)),
     gasNextTill    |-> isoformat(day_after_next_start(t))]

NoRequest ==
    LET z == [date |-> 0, hour |-> 0, minute |-> 0, offset |-> 0]
    IN  [gasCurrentFrom |-> z, gasCurrentTill |-> z, gasNextFrom |-> z, gasNextTill |-> z]

AllTimes ==
    {dt \in {DateTime(tz, d, h, m) : tz \in Zones, d \in 0..MaxDay, h \in 0..23, m \in {0, 30}} :
        Exists(dt)}

\* Clock readings used where the time of day does not matter.
RefreshTimes == {DateTime("UTC", 0, 12, 30)}

\* Readings the clock can show later in the same hour.
Later(t) == {u \in AllTimes : u.tz = t.tz /\ u.day = t.day /\ u.hour = t.hour /\ u.minute >= t.minute}

---------------------------------------------------------------------------
(* GasPriceData: one group of fields per period and last_updated.  The     *)
(* field f of period p is the attribute <p>_<f> of the dataclass.          *)

EmptyPeriod ==
    [market_price_excl |-> NULL, market_price_incl |-> NULL,
     energy_tax_excl |-> NULL, energy_tax_incl |-> NULL,
     purchasing_cost_excl |-> NULL, purchasing_cost_incl |-> NULL,
     total_price_excl |-> NULL, total_price_incl |-> NULL,
     from |-> NULL, till |-> NULL]

\* The record of the refresh before, written over.
GasPriceData_kept(last_updated) == [held.data EXCEPT !.last_updated = <<last_updated>>]

\* GasPriceData(last_updated=...): every other field defaults to None.
GasPriceData(last_updated) ==
    [current |-> EmptyPeriod, next |-> EmptyPeriod, last_updated |-> <<last_updated>>]

NoRecord == [current |-> EmptyPeriod, next |-> EmptyPeriod, last_updated |-> <<>>]

---------------------------------------------------------------------------
(* _process_price_data                                                     *)

\* d.get(key, default) on a number field.
dict_get(j, default) == IF j.t = "absent" THEN default ELSE json_value(j)

\* d.get(key) on a field copied as it is.
dict_get_raw(j) == IF j.t = "absent" THEN NULL ELSE j

\* not price_data or "prices" not in price_data or not price_data["prices"]
no_prices(price_data) ==
    \/ price_data.t # "obj"
    \/ ~price_data.hasPrices
    \/ Len(price_data.prices) = 0

\* The locals of the loop over additionalCosts.
Locals(total_excl, total_incl) ==
    [raised |-> FALSE,
     total_price_excl |-> total_excl, total_price_incl |-> total_incl,
     energy_tax_excl |-> PyZero, energy_tax_incl |-> PyZero,
     purchasing_cost_excl |-> PyZero, purchasing_cost_incl |-> PyZero]

\* Categorize by name.
categorize_any_case(l, cost_name, cost_excl, cost_incl) ==
    IF cost_name \in {"Energy tax", "energy tax"}
    THEN [l EXCEPT !.energy_tax_excl = cost_excl, !.energy_tax_incl = cost_incl]
    ELSE IF cost_name = "Purchasing cost"
         THEN [l EXCEPT !.purchasing_cost_excl = cost_excl, !.purchasing_cost_incl = cost_incl]
         ELSE l

categorize(l, cost_name, cost_excl, cost_incl) ==
    IF cost_name = "Energy tax"
    THEN [l EXCEPT !.energy_tax_excl = cost_excl, !.energy_tax_incl = cost_incl]
    ELSE IF cost_name = "Purchasing cost"
         THEN [l EXCEPT !.purchasing_cost_excl = cost_excl, !.purchasing_cost_incl = cost_incl]
         ELSE l

\* Add to total price; None + float is a TypeError.
add_to_total_swapped(l, cost_excl, cost_incl) ==
    IF \/ l.total_price_excl.none \/ cost_excl.none
       \/ l.total_price_incl.none \/ cost_incl.none
    THEN [l EXCEPT !.raised = TRUE]
    ELSE [l EXCEPT !.total_price_excl = float_add(@, cost_excl),
                   !.total_price_incl = float_add(@, cost_excl)]

add_to_total(l, cost_excl, cost_incl) ==
    IF \/ l.total_price_excl.none \/ cost_excl.none
       \/ l.total_price_incl.none \/ cost_incl.none
    THEN [l EXCEPT !.raised = TRUE]
    ELSE [l EXCEPT !.total_price_excl = float_add(@, cost_excl),
                   !.total_price_incl = float_add(@, cost_incl)]

\* After the two additions: the TypeError ends the call.
after_add(t, cost_name, cost_excl, cost_incl) ==
    IF t.raised THEN t ELSE categorize(t, cost_name, cost_excl, cost_incl)

add_cost(l, cost_name, cost_excl, cost_incl) ==
    IF l.raised THEN l
    ELSE after_add(add_to_total(l, cost_excl, cost_incl), cost_name, cost_excl, cost_incl)

\* One iteration of the loop.
loop_body(l, cost) ==
    add_cost(l, cost.name, dict_get(cost.priceExcl, PyZero), dict_get(cost.priceIncl, PyZero))

RECURSIVE loop(_, _)
loop(l, costs) ==
    IF costs = <<>> THEN l ELSE loop(loop_body(l, Head(costs)), Tail(costs))

\* if price.get("additionalCosts"): a missing or empty list is skipped.
costs_of(price) ==
    IF price.additionalCosts.present THEN price.additionalCosts.items ELSE <<>>

\* The running totals start from the market price, 0 when the key is missing.
initial_locals_no_default(price) ==
    Locals(dict_get(price.energyPriceExcl, PyNone), dict_get(price.energyPriceIncl, PyNone))

initial_locals(price) ==
    Locals(dict_get(price.energyPriceExcl, PyZero), dict_get(price.energyPriceIncl, PyZero))

\* The fields of one period after _process_price_data; raised when the
\* call ends in a TypeError.
\* The setattr calls, given the interval and the locals after the loop.
set_fields(price, l) ==
    [raised |-> l.raised,
     fields |->
       [market_price_excl |-> round_monetary_value(dict_get(price.energyPriceExcl, PyNone)),
        market_price_incl |-> round_monetary_value(dict_get(price.energyPriceIncl, PyNone)),
        energy_tax_excl |-> round_monetary_value(l.energy_tax_excl),
        energy_tax_incl |-> round_monetary_value(l.energy_tax_incl),
        purchasing_cost_excl |-> round_monetary_value(l.purchasing_cost_excl),
        purchasing_cost_incl |-> round_monetary_value(l.purchasing_cost_incl),
        total_price_excl |-> round_monetary_value(l.total_price_excl),
        total_price_incl |-> round_monetary_value(l.total_price_incl),
        from |-> dict_get_raw(price.from),
        till |-> dict_get_raw(price.till)]]

\* price = price_data["prices"][0] and all that follows.
process_first(price) == set_fields(price, loop(initial_locals(price), costs_of(price)))

process_price_data(price_data, fields) ==
    IF no_prices(price_data) THEN [raised |-> FALSE, fields |-> fields]
    ELSE process_first(price_data.prices[1])

---------------------------------------------------------------------------
(* _async_update_data, from the response on                                *)

\* An exception: its class, its message text, and what the message
\* carries of the response (status code, body, GraphQL error list).
Raised(type, message, status, body, errors) ==
    [type |-> type, message |-> message, status |-> status, body |-> body, errors |-> errors]

NoError == Raised("", "", <<>>, <<>>, <<>>)

\* A _LOGGER.error call: the format string and its arguments.
LogEntry(message, status, body, errors, exc) ==
    [message |-> message, status |-> status, body |-> body, errors |-> errors, exc |-> exc]

\* except Exception as ex: log it, then raise.
reraise_wrapped(ex, logged) ==
    [outcome |-> "raised", data |-> NoRecord, error |-> [ex EXCEPT !.type = "UpdateFailed"],
     log |-> logged \o <<LogEntry("Error updating gas price data: %s", <<>>, <<>>, <<>>, <<ex>>)>>]

reraise(ex, logged) ==
    [outcome |-> "raised", data |-> NoRecord, error |-> ex,
     log |-> logged \o <<LogEntry("Error updating gas price data: %s", <<>>, <<>>, <<>>, <<ex>>)>>]

\* raise Exception(f"Error fetching gas prices: {response.status}")
status_error(resp) ==
    Raised("Exception", "Error fetching gas prices: {status}", <<resp.status>>, <<>>, <<>>)

\* raise Exception(f"GraphQL errors: {data['errors']}")
graphql_error(body) ==
    Raised("Exception", "GraphQL errors: {errors}", <<>>, <<>>, <<body.errors.list>>)

\* raise Exception("No data in response")
no_data_error == Raised("Exception", "No data in response", <<>>, <<>>, <<>>)

\* Which of the checks ends the invocation: "status", "errors", "data",
\* or "none".
failed_check_errors_first(resp) ==
    IF resp.body.errors.present THEN "errors"
    ELSE IF resp.status # 200 THEN "status"
    ELSE IF resp.body.data.t = "absent" THEN "data"
    ELSE "none"

failed_check(resp) ==
    IF resp.status # 200 THEN "status"
    ELSE IF resp.body.errors.present THEN "errors"
    ELSE IF resp.body.data.t = "absent" THEN "data"
    ELSE "none"

\* None += float
type_error == Raised("TypeError", "unsupported operand type(s) for +=", <<>>, <<>>, <<>>)

\* The record after the two calls of _process_price_data (c for current,
\* n for next), or the TypeError of the first call that raised.
processed(gas_price_data, c, n) ==
    IF c.raised \/ n.raised THEN reraise(type_error, <<>>)
    ELSE [outcome |-> "returned",
          data |-> [gas_price_data EXCEPT !.current = c.fields, !.next = n.fields],
          error |-> NoError, log |-> <<>>]

process_both(current_data, next_data, gas_price_data) ==
    processed(gas_price_data,
              process_price_data(current_data, gas_price_data.current),
              process_price_data(next_data, gas_price_data.next))

\* Process the response data: data["data"]["current"], data["data"]["next"],
\* a fresh GasPriceData, and the two calls of _process_price_data.
extract(body, t) ==
    IF body.data.t = "null"
    THEN reraise(Raised("TypeError", "'NoneType' object is not subscriptable", <<>>, <<>>, <<>>), <<>>)
    ELSE IF body.data.current.t = "absent"
    THEN reraise(Raised("KeyError", "current", <<>>, <<>>, <<>>), <<>>)
    ELSE IF body.data.next.t = "absent"
    THEN reraise(Raised("KeyError", "next", <<>>, <<>>, <<>>), <<>>)
    ELSE process_both(body.data.current, body.data.next, GasPriceData(isoformat(t)))

\* What the invocation delivers for response resp when the clock shows t
\* at completion.
async_update_data(resp, t) ==
    LET check == failed_check(resp)
    IN  IF check = "status"
        THEN reraise(status_error(resp),
                     <<LogEntry("Error fetching gas prices: %s %s", <<resp.status>>, <<resp.body>>, <<>>, <<>>)>>)
        ELSE IF check = "errors"
        THEN reraise(graphql_error(resp.body),
                     <<LogEntry("GraphQL errors: %s", <<>>, <<>>, <<resp.body.errors.list>>, <<>>)>>)
        ELSE IF check = "data"
        THEN reraise(no_data_error,
                     <<LogEntry("No data in response: %s", <<>>, <<resp.body>>, <<>>, <<>>)>>)
        ELSE extract(resp.body, t)

---------------------------------------------------------------------------
(* The responses the refresh is tried on.                                  *)

MaxCosts == 2    \* longest additionalCosts list

Str(k) == [t |-> "str", v |-> k]    \* the k-th timestamp string of the API

Cost(name, excl, incl) == [name |-> name, priceExcl |-> excl, priceIncl |-> incl]

CostEntries ==
    {Cost("Energy tax", Num(100), Num(120)), Cost("Energy tax", Num(10), Num(30)),
     Cost("Purchasing cost", Num(50), Num(60)), Cost("Purchasing cost", Num(75), Num(5)),
     Cost("energy tax", Num(75), Num(5)), Cost("Network fee", Num(10), ABSENT)}

CostLists == UNION {[1..n -> CostEntries] : n \in 0..MaxCosts}

AdditionalCosts ==
    {[present |-> FALSE, items |-> <<>>]} \cup {[present |-> TRUE, items |-> l] : l \in CostLists}

MarketPrices ==
    {<<Num(500), Num(600)>>, <<ABSENT, Num(600)>>, <<Num(5), ABSENT>>, <<NULL, NULL>>}

Interval(market, costs) ==
    [energyPriceExcl |-> market[1], energyPriceIncl |-> market[2],
     from |-> Str(1), till |-> Str(2), additionalCosts |-> costs]

Intervals == {Interval(m, c) : m \in MarketPrices, c \in AdditionalCosts}

KeyMissing == [t |-> "absent", hasPrices |-> FALSE, prices |-> <<>>]
NullObject == [t |-> "null", hasPrices |-> FALSE, prices |-> <<>>]
Object(hasPrices, prices) == [t |-> "obj", hasPrices |-> hasPrices, prices |-> prices]

\* The interval of the end-to-end scenario.
ExampleInterval ==
    Interval(<<Num(500), Num(600)>>,
             [present |-> TRUE,
              items |-> <<Cost("Energy tax", Num(100), Num(120)),
                          Cost("Purchasing cost", Num(50), Num(60))>>])

PeriodObjects ==
    {KeyMissing, NullObject, Object(FALSE, <<>>), Object(TRUE, <<>>)}
        \cup {Object(TRUE, <<i>>) : i \in Intervals}
        \cup {Object(TRUE, <<ExampleInterval, i>>) : i \in {Interval(<<Num(5), ABSENT>>, [present |-> FALSE, items |-> <<>>])}}

SimplePeriods == {Object(TRUE, <<>>), Object(TRUE, <<ExampleInterval>>)}

Data(c, n) == [t |-> "obj", current |-> c, next |-> n]
NoData(t) == [t |-> t, current |-> KeyMissing, next |-> KeyMissing]

DataObjects ==
    {Data(c, n) : c \in PeriodObjects, n \in SimplePeriods}
        \cup {Data(c, n) : c \in SimplePeriods, n \in PeriodObjects}

Errors(list) == [present |-> TRUE, list |-> list]
NoErrors == [present |-> FALSE, list |-> <<>>]

Body(errors, d) == [errors |-> errors, data |-> d]
Response(status, body) == [status |-> status, body |-> body]

NoResponse == Response(0, Body(NoErrors, NoData("absent")))

ExampleData == Data(Object(TRUE, <<ExampleInterval>>), Object(TRUE, <<>>))

\* Responses that differ in status, errors and data.
FewResponses ==
    {Response(s, Body(e, d)) :
        s \in {200, 500},
        e \in {NoErrors, Errors(<<"boom">>)},
        d \in {NoData("absent"), NoData("null"), ExampleData}}

Responses == FewResponses \cup {Response(200, Body(NoErrors, d)) : d \in DataObjects}

---------------------------------------------------------------------------
(* Bounds                                                                  *)

MaxUnits == 1300      \* round_monetary_value is applied to
MaxNegative == 150    \* -MaxNegative..MaxUnits thousandths, and to null

RoundInputs == {NULL} \cup {Num(n) : n \in (-MaxNegative)..MaxUnits}

NoValue == [t |-> "none", v |-> 0]

MaxShutdowns == 2     \* async_shutdown is called at most this many times

---------------------------------------------------------------------------
(* Specification of the rounding helper alone.                             *)

InitRound ==
    /\ pc = "idle"
    /\ now = 0
    /\ variables = 0
    /\ response = 0
    /\ outcome = "none"
    /\ data = 0
    /\ error = 0
    /\ log = <<>>
    /\ session = 0
    /\ held = 0
    /\ shutdowns = 0
    /\ failed = FALSE
    /\ value \in RoundInputs
    /\ rounded = NoValue

Round ==
    /\ rounded = NoValue
    /\ rounded' = round_monetary_value(json_value(value))
    /\ UNCHANGED <<pc, now, variables, response, outcome, data, error, log, session, held,
                   shutdowns, failed, value>>

NextRound == Round

SpecRound == InitRound /\ [][NextRound]_vars

---------------------------------------------------------------------------
(* The coordinator object: its session, and the record the host keeps.     *)

\* self._session = aiohttp.ClientSession()
ClientSession == "open"

\* session.closed
closed(s) == s = "closed"

\* await self._session.close(): releases the connector; on a session that
\* is closed already it does nothing.  The result is the session and
\* whether the call raised.
ClientSession_close_once(s) == [session |-> "closed", raised |-> closed(s)]

ClientSession_close(s) == [session |-> "closed", raised |-> FALSE]

\* async_shutdown: super().async_shutdown() stops the host's scheduling and
\* touches nothing of this component; a ClientSession object is truthy, open
\* or closed, so close() is called every time.
async_shutdown(s) == ClientSession_close(s)

\* self._session.post(...) on a closed session
session_closed_error == Raised("RuntimeError", "Session is closed", <<>>, <<>>, <<>>)

\* The request in flight when the session was closed under it.
connection_error == Raised("ClientConnectionError", "Connection closed", <<>>, <<>>, <<>>)

\* coordinator.data before the first successful refresh.
NothingHeld == [response |-> NoResponse, data |-> NoRecord]

---------------------------------------------------------------------------
(* The refresh.                                                            *)

NoTime == DateTime("UTC", 0, 0, 0)

Init ==
    /\ pc = "idle"
    /\ now = NoTime
    /\ variables = NoRequest
    /\ response = NoResponse
    /\ outcome = "none"
    /\ data = NoRecord
    /\ error = NoError
    /\ log = <<>>
    /\ session = ClientSession
    /\ held = NothingHeld
    /\ shutdowns = 0
    /\ failed = FALSE
    /\ value = NULL
    /\ rounded = NoValue

\* _async_update_data up to the request: read the clock, compute the two
\* windows, post the query.
UpdateBegin(t) ==
    /\ pc = "idle"
    /\ ~closed(session)
    /\ pc' = "awaiting"
    /\ now' = t
    /\ variables' = request_variables(t)
    /\ response' = NoResponse
    /\ outcome' = "none"
    /\ data' = NoRecord
    /\ error' = NoError
    /\ log' = <<>>
    /\ UNCHANGED <<session, held, shutdowns, failed, value, rounded>>

\* The invocation ends with r: the record goes to the caller, or the error.
Deliver(resp, t, r) ==
    /\ pc' = "idle"
    /\ now' = IF r.outcome = "returned" THEN t ELSE now
    /\ variables' = NoRequest
    /\ response' = resp
    /\ outcome' = r.outcome
    /\ data' = r.data
    /\ error' = r.error
    /\ log' = r.log

\* _async_update_data from the response on: return the record or raise.
UpdateEnd(resp) ==
    /\ pc = "awaiting"
    /\ \E t \in Later(now) : Deliver(resp, t, async_update_data(resp, t))
    /\ UNCHANGED <<session, held, shutdowns, failed, value, rounded>>

Next ==
    \/ \E t \in RefreshTimes : UpdateBegin(t)
    \/ \E resp \in Responses : UpdateEnd(resp)

Spec == Init /\ [][Next]_vars

\* The same refresh at every time of day, on the few responses.
NextWindow ==
    \/ \E t \in AllTimes : UpdateBegin(t)
    \/ \E resp \in FewResponses : UpdateEnd(resp)

SpecWindow == Init /\ [][NextWindow]_vars

---------------------------------------------------------------------------
(* The life of the coordinator: refreshes, the host keeping what they      *)
(* return, and async_shutdown at any point.                                *)

\* The host stores the returned record as coordinator.data (read by the
\* sensors); after a failed refresh it keeps what it had.
HostStore ==
    /\ pc = "idle"
    /\ outcome = "returned"
    /\ held # [response |-> response, data |-> data]
    /\ held' = [response |-> response, data |-> data]
    /\ UNCHANGED <<pc, now, variables, response, outcome, data, error, log, session,
                   shutdowns, failed, value, rounded>>

\* _async_update_data on a closed session: post raises at once; the
\* handler logs the error and raises it.
UpdateRefused(t) ==
    /\ pc = "idle"
    /\ closed(session)
    /\ now' = t
    /\ variables' = NoRequest
    /\ response' = NoResponse
    /\ outcome' = "raised"
    /\ data' = reraise(session_closed_error, <<>>).data
    /\ error' = reraise(session_closed_error, <<>>).error
    /\ log' = reraise(session_closed_error, <<>>).log
    /\ UNCHANGED <<pc, session, held, shutdowns, failed, value, rounded>>

\* The session was closed while the request was in flight and the await
\* raises; the handler logs the error and raises it.
UpdateAbort ==
    /\ pc = "awaiting"
    /\ closed(session)
    /\ Deliver(NoResponse, now, reraise(connection_error, <<>>))
    /\ UNCHANGED <<session, held, shutdowns, failed, value, rounded>>

\* async_shutdown, whatever the refresh is doing.
Shutdown ==
    /\ shutdowns < MaxShutdowns
    /\ shutdowns' = shutdowns + 1
    /\ session' = async_shutdown(session).session
    /\ failed' = (failed \/ async_shutdown(session).raised)
    /\ UNCHANGED <<pc, now, variables, response, outcome, data, error, log, held,
                   value, rounded>>

\* Two refresh times on different days.
LifeTimes == {DateTime("UTC", d, 12, 30) : d \in {0, 1}}

\* An interval unlike the example's.
OtherInterval ==
    Interval(<<Num(5), ABSENT>>,
             [present |-> TRUE, items |-> <<Cost("Energy tax", Num(10), Num(30))>>])

\* An interval whose null price makes the running total raise.
NullPriceInterval ==
    Interval(<<NULL, NULL>>,
             [present |-> TRUE, items |-> <<Cost("Energy tax", Num(10), Num(30))>>])

\* Responses that fail at each point of the handler, and responses that
\* succeed with data for one period, the other, or both.
LifeResponses ==
    {Response(500, Body(NoErrors, ExampleData)),
     Response(200, Body(Errors(<<"boom">>), ExampleData)),
     Response(200, Body(NoErrors, NoData("absent"))),
     Response(200, Body(NoErrors, Data(Object(TRUE, <<ExampleInterval>>), KeyMissing))),
     Response(200, Body(NoErrors, Data(Object(TRUE, <<ExampleInterval>>),
                                       Object(TRUE, <<NullPriceInterval>>)))),
     Response(200, Body(NoErrors, ExampleData)),
     Response(200, Body(NoErrors, Data(Object(TRUE, <<>>), Object(TRUE, <<ExampleInterval>>)))),
     Response(200, Body(NoErrors, Data(Object(TRUE, <<OtherInterval>>),
                                       Object(TRUE, <<ExampleInterval>>))))}

NextLife ==
    \/ \E t \in LifeTimes : UpdateBegin(t)
    \/ \E resp \in LifeResponses : UpdateEnd(resp)
    \/ HostStore
    \/ \E t \in LifeTimes : UpdateRefused(t)
    \/ UpdateAbort
    \/ Shutdown

SpecLife == Init /\ [][NextLife]_vars

---------------------------------------------------------------------------
(* Properties                                                              *)

Periods == {"current", "next"}
Other(p) == IF p = "current" THEN "next" ELSE "current"

Done == pc = "idle" /\ outcome # "none"
Returned == pc = "idle" /\ outcome = "returned"

SubObject(p) == response.body.data[p]

\* The period's sub-object has a first price interval.
HasInterval(p) ==
    /\ SubObject(p).t = "obj"
    /\ SubObject(p).hasPrices
    /\ Len(SubObject(p).prices) > 0

FirstInterval(p) == SubObject(p).prices[1]

CostsOf(p) ==
    IF FirstInterval(p).additionalCosts.present
    THEN FirstInterval(p).additionalCosts.items ELSE <<>>

\* The number a JSON field stands for in a sum, 0 when it is not there.
NumOr0(j) == IF j.t = "num" THEN j.v ELSE 0

\* Round-half-up of n thousandths (n >= 0) to hundredths, in thousandths.
Round2(n) == ((n + 5) \div 10) * 10

RECURSIVE SumExcl(_)
SumExcl(costs) ==
    IF costs = <<>> THEN 0 ELSE NumOr0(Head(costs).priceExcl) + SumExcl(Tail(costs))

RECURSIVE SumIncl(_)
SumIncl(costs) ==
    IF costs = <<>> THEN 0 ELSE NumOr0(Head(costs).priceIncl) + SumIncl(Tail(costs))

\* The last entry of costs with the given name, <<>> when there is none.
LastNamed(costs, name) ==
    LET idx == {i \in 1..Len(costs) : costs[i].name = name}
    IN  IF idx = {} THEN <<>>
        ELSE <<costs[CHOOSE i \in idx : \A k \in idx : k <= i]>>

BucketExcl(costs, name) ==
    IF LastNamed(costs, name) = <<>> THEN 0 ELSE NumOr0(LastNamed(costs, name)[1].priceExcl)

BucketIncl(costs, name) ==
    IF LastNamed(costs, name) = <<>> THEN 0 ELSE NumOr0(LastNamed(costs, name)[1].priceIncl)

\* The response passes the three failure checks.
PassesChecks ==
    /\ response.status = 200
    /\ ~response.body.errors.present
    /\ response.body.data.t # "absent"

\* C1: for every period whose first interval has a non-empty
\* additionalCosts list, total_price_excl is the exact sum of
\* energyPriceExcl and every entry's priceExcl, rounded half-up once at the
\* end; likewise total_price_incl.
C1_TotalIsRoundedExactSum ==
    Returned =>
        \A p \in Periods :
            (HasInterval(p) /\ CostsOf(p) # <<>>) =>
                /\ data[p].total_price_excl =
                     Num(Round2(NumOr0(FirstInterval(p).energyPriceExcl) + SumExcl(CostsOf(p))))
                /\ data[p].total_price_incl =
                     Num(Round2(NumOr0(FirstInterval(p).energyPriceIncl) + SumIncl(CostsOf(p))))

\* C2: the response is classified by status, then errors, then data; the
\* first check that applies raises its error and no record is returned; a
\* record is returned only when none applies.
C2_ChecksInOrder ==
    Done =>
        /\ response.status # 200 =>
             /\ outcome = "raised"
             /\ error.message = "Error fetching gas prices: {status}"
        /\ (response.status = 200 /\ response.body.errors.present) =>
             /\ outcome = "raised"
             /\ error.message = "GraphQL errors: {errors}"
        /\ (response.status = 200 /\ ~response.body.errors.present
                /\ response.body.data.t = "absent") =>
             /\ outcome = "raised"
             /\ error.message = "No data in response"
        /\ outcome = "raised" => data = NoRecord
        /\ outcome = "returned" => (PassesChecks /\ data # NoRecord)

\* A non-200 response whose body also has errors fails on the status check.
C2_Witness ==
    /\ Done
    /\ response.status = 500
    /\ response.body.errors.present
    /\ error.message = "Error fetching gas prices: {status}"

\* The other period is one the extraction accepts: without data, or with
\* numeric prices throughout.
WellFormed(p) ==
    \/ SubObject(p).t = "null"
    \/ /\ SubObject(p).t = "obj"
       /\ HasInterval(p) =>
            /\ FirstInterval(p).energyPriceExcl.t # "null"
            /\ FirstInterval(p).energyPriceIncl.t # "null"

\* The period carries no data: sub-object absent (or null), prices missing
\* or empty.
WithoutData(p) == ~HasInterval(p)

\* C3: when the response passes the three checks, a period whose
\* sub-object is absent, or whose prices list is missing or empty, does not
\* fail the refresh; that period's fields are all null and the other
\* period's fields are what its own sub-object gives.
C3_PartialDataIsNotFatal ==
    (Done /\ PassesChecks /\ response.body.data.t = "obj") =>
        \A p \in Periods :
            (WithoutData(p) /\ WellFormed(Other(p))) =>
                /\ outcome = "returned"
                /\ data[p] = EmptyPeriod
                /\ data[Other(p)] = process_price_data(SubObject(Other(p)), EmptyPeriod).fields

\* C4: round_monetary_value rounds to two decimals, half up: a third
\* decimal digit of 5 or more goes to the next hundredth, 4 or less is
\* cut off; null gives null, never 0.
C4_RoundHalfUp ==
    rounded # NoValue =>
        /\ value = NULL => rounded = NULL
        /\ value # NULL =>
             LET a == Abs(value.v)
                 c == IF a % 10 >= 5 THEN (a \div 10) + 1 ELSE a \div 10
             IN  rounded = Num(IF value.v < 0 THEN -(c * 10) ELSE c * 10)
        /\ value = Num(1005) => rounded = Num(1010)
        /\ value = Num(125) => rounded = Num(130)
        /\ value = Num(1004) => rounded = Num(1000)

C4_Witness == value = Num(1005) /\ rounded = Num(1010)

\* What the rounded running sum can be when its exact value is n
\* thousandths: the half-up rounding of n, or, when n lies exactly on a
\* half cent, the hundredth below it as well.
RoundedSums(n) ==
    IF n % 10 = 5 THEN {Num(Round2(n)), Num(Round2(n) - 10)} ELSE {Num(Round2(n))}

\* C5: the energy-tax fields come from the last entry named exactly
\* "Energy tax", the purchasing-cost fields from the last entry named
\* exactly "Purchasing cost"; an entry with any other name changes no
\* bucket and is still part of the total.
C5_ExactNameBuckets ==
    Returned =>
        \A p \in Periods :
            HasInterval(p) =>
                /\ data[p].energy_tax_excl = Num(Round2(BucketExcl(CostsOf(p), "Energy tax")))
                /\ data[p].energy_tax_incl = Num(Round2(BucketIncl(CostsOf(p), "Energy tax")))
                /\ data[p].purchasing_cost_excl = Num(Round2(BucketExcl(CostsOf(p), "Purchasing cost")))
                /\ data[p].purchasing_cost_incl = Num(Round2(BucketIncl(CostsOf(p), "Purchasing cost")))
                /\ CostsOf(p) # <<>> =>
                     /\ data[p].total_price_excl \in
                          RoundedSums(NumOr0(FirstInterval(p).energyPriceExcl) + SumExcl(CostsOf(p)))
                     /\ data[p].total_price_incl \in
                          RoundedSums(NumOr0(FirstInterval(p).energyPriceIncl) + SumIncl(CostsOf(p)))

\* An entry named "energy tax" leaves the energy-tax fields at 0 and is in
\* the total.
C5_Witness ==
    /\ Returned
    /\ HasInterval("current")
    /\ CostsOf("current") = <<Cost("energy tax", Num(75), Num(5))>>
    /\ FirstInterval("current").energyPriceExcl = Num(500)
    /\ data.current.energy_tax_excl = Num(0)
    /\ data.current.total_price_excl = Num(580)

NamedBuckets == {"Energy tax", "Purchasing cost"}

\* Every entry is named after a bucket and no name occurs twice.
NamesSettled(costs) ==
    /\ \A i \in 1..Len(costs) : costs[i].name \in NamedBuckets
    /\ \A i, k \in 1..Len(costs) : costs[i].name = costs[k].name => i = k

PartsExcl(p) ==
    NumOr0(FirstInterval(p).energyPriceExcl)
        + BucketExcl(CostsOf(p), "Energy tax") + BucketExcl(CostsOf(p), "Purchasing cost")

PartsIncl(p) ==
    NumOr0(FirstInterval(p).energyPriceIncl)
        + BucketIncl(CostsOf(p), "Energy tax") + BucketIncl(CostsOf(p), "Purchasing cost")

NotNull(j) == j.t # "null"

\* The payload is one the extraction goes through: both sub-objects are
\* there and no market price is null.
Extractable ==
    /\ PassesChecks
    /\ response.body.data.t = "obj"
    /\ \A p \in Periods :
         /\ SubObject(p).t # "absent"
         /\ HasInterval(p) =>
              /\ NotNull(FirstInterval(p).energyPriceExcl)
              /\ NotNull(FirstInterval(p).energyPriceIncl)

HasNamed(costs, name) == \E i \in 1..Len(costs) : costs[i].name = name

\* C7: for a period with a first interval, a missing energyPriceExcl gives
\* a null market_price_excl while the refresh succeeds and the total is the
\* rounded sum of the additional costs (likewise incl); without an entry
\* named "Energy tax" (resp. "Purchasing cost") those fields are 0.
C7_NullMarketZeroBuckets ==
    (Done /\ Extractable) =>
        /\ outcome = "returned"
        /\ \A p \in Periods :
             HasInterval(p) =>
                /\ FirstInterval(p).energyPriceExcl.t = "absent" =>
                     /\ data[p].market_price_excl = NULL
                     /\ data[p].total_price_excl = Num(Round2(SumExcl(CostsOf(p))))
                /\ FirstInterval(p).energyPriceIncl.t = "absent" =>
                     /\ data[p].market_price_incl = NULL
                     /\ data[p].total_price_incl = Num(Round2(SumIncl(CostsOf(p))))
                /\ ~HasNamed(CostsOf(p), "Energy tax") =>
                     /\ data[p].energy_tax_excl = Num(0)
                     /\ data[p].energy_tax_incl = Num(0)
                /\ ~HasNamed(CostsOf(p), "Purchasing cost") =>
                     /\ data[p].purchasing_cost_excl = Num(0)
                     /\ data[p].purchasing_cost_incl = Num(0)

\* round2 of a JSON field: null when the field is null or missing.
RoundOf(j) == IF j.t = "num" THEN Num(Round2(j.v)) ELSE NULL

\* C8 as stated: with additionalCosts omitted or empty, total_price is
\* round2(energyPrice) and equals the reported market_price, excl and incl.
C8_TotalEqualsMarket ==
    Returned =>
        \A p \in Periods :
            (HasInterval(p) /\ CostsOf(p) = <<>>) =>
                /\ data[p].total_price_excl = RoundOf(FirstInterval(p).energyPriceExcl)
                /\ data[p].total_price_excl = data[p].market_price_excl
                /\ data[p].total_price_incl = RoundOf(FirstInterval(p).energyPriceIncl)
                /\ data[p].total_price_incl = data[p].market_price_incl

\* C8 as amended: the equalities hold when the energyPrice key is present
\* (both fields are null when it is null); when the key is missing the
\* market price is null and the total is 0.
C8_TotalEqualsMarketWhenPresent ==
    Returned =>
        \A p \in Periods :
            (HasInterval(p) /\ CostsOf(p) = <<>>) =>
                /\ IF FirstInterval(p).energyPriceExcl.t = "absent"
                   THEN data[p].market_price_excl = NULL /\ data[p].total_price_excl = Num(0)
                   ELSE /\ data[p].total_price_excl = RoundOf(FirstInterval(p).energyPriceExcl)
                        /\ data[p].total_price_excl = data[p].market_price_excl
                /\ IF FirstInterval(p).energyPriceIncl.t = "absent"
                   THEN data[p].market_price_incl = NULL /\ data[p].total_price_incl = Num(0)
                   ELSE /\ data[p].total_price_incl = RoundOf(FirstInterval(p).energyPriceIncl)
                        /\ data[p].total_price_incl = data[p].market_price_incl

\* No additionalCosts, energyPriceExcl missing, energyPriceIncl 0.60.
C8_Witness ==
    /\ Returned
    /\ HasInterval("current")
    /\ ~FirstInterval("current").additionalCosts.present
    /\ FirstInterval("current").energyPriceExcl = ABSENT
    /\ data.current.total_price_excl = Num(0)
    /\ data.current.market_price_excl = NULL
    /\ data.current.total_price_incl = Num(600)
    /\ data.current.market_price_incl = Num(600)

\* The error was logged by the handler and raised as it was.
LoggedAndRaised ==
    /\ log # <<>>
    /\ log[Len(log)].message = "Error updating gas price data: %s"
    /\ log[Len(log)].exc = <<error>>

Hours(n) == n * 60

\* The request is in flight: its four variables are those computed from now.
Requested == pc = "awaiting"

Midnight(iso, day) == iso.date = day /\ iso.hour = 0 /\ iso.minute = 0

Length(from, till) == Instant(till) - Instant(from)

RefreshState == <<pc, now, variables, response, outcome, data, error, log>>

\* The returned record, last_updated aside, is what the response alone
\* makes it: a period without a price interval has no value at all,
\* whatever the host holds from before, and a response seen before gives
\* the same fields again.
FreshRecord ==
    Returned =>
        /\ data.last_updated # <<>>
        /\ \A p \in Periods : ~HasInterval(p) => data[p] = EmptyPeriod
        /\ held.response = response => \A p \in Periods : data[p] = held.data[p]

\* A failed refresh hands back no record.
NoPartialRecord == (Done /\ outcome = "raised") => data = NoRecord

\* C11: across refreshes that succeed and fail, a returned record is
\* determined by its own response (last_updated aside) and carries nothing
\* over from an earlier refresh; a failed refresh returns no record; and no
\* step of a refresh changes the session or the record the host holds.
C11_FreshRecordNoResidue ==
    /\ [](FreshRecord /\ NoPartialRecord)
    /\ [][RefreshState' # RefreshState => UNCHANGED <<session, held>>]_vars

\* A refresh returned a record with no values for next while the host
\* still holds an earlier record, of another day, with values for next.
C11_Witness ==
    /\ Returned
    /\ ~HasInterval("next")
    /\ data.next = EmptyPeriod
    /\ data.current # EmptyPeriod
    /\ held.response # response
    /\ held.data.next # EmptyPeriod
    /\ held.data.last_updated # <<>>
    /\ held.data.last_updated # data.last_updated

\* A call of async_shutdown has just completed.
ShutdownCalled == shutdowns' # shutdowns

====
